---- MODULE Spec2Model ----
(***************************************************************************)
(* Container storage: the Store (stacking engine, store.py) and the        *)
(* expert Strategy (time-staged scheduler, expert.py).                     *)
(*                                                                         *)
(* Columns are numbered 0..width-1 as in the source; a column is a         *)
(* sequence of Container records, bottom first (row r is element r+1).     *)
(***************************************************************************)
EXTENDS Integers, Sequences, FiniteSets, TLC

VARIABLES
    store,          \* the Store object: width, cash, containers, container_loc
    stream,         \* the Containers known to the caller, indexed by position
    last,           \* the last Store call made by the caller: op, c (identifier), p,
                    \* and whether it changed the Store
    int_is_value,   \* whether `is` on two equal ints outside the small-int
                    \* cache is true on this interpreter
    strategy,       \* the Strategy object: time, next_time, end, emptied, moved
    ctl,            \* where Strategy.exec stands: pc, call stack, local variables
    log,            \* the lines the Logger has written
    hist            \* history of the run: rejected = identifiers of the Containers
                    \* exec did not accept; empty_runs, move_all_runs = how often
                    \* empty and move_all have run since the stage began; began =
                    \* the clock when exec was called for the last Container

vars == <<store, stream, last, int_is_value, strategy, ctl, log, hist>>

----------------------------------------------------------------------------
(* Bounds of the model *)

YardWidth == 4      \* width of the Store driven through its API
NumUnits == 2       \* Containers the API caller holds
MaxSize == 4        \* Container sizes are 1..4
MaxHeight == 2      \* add and move are not called on a column of this height or more
MaxCash == 1        \* add_cash is not called once cash reaches this

(* CPython keeps one object per int in -5..256; `is` on larger ints       *)
(* compares two distinct objects.                                          *)
SmallIntMax == 256

----------------------------------------------------------------------------
(* Data types: store.py TimeRange, Container *)

TimeRange(start, end) == [start |-> start, end |-> end]

Container(identifier, size, value, arrival, delivery) ==
    [identifier |-> identifier, size |-> size, value |-> value,
     arrival |-> arrival, delivery |-> delivery]

expired(c, time) == time >= c.delivery.end

deliverable(c, time) == time >= c.delivery.start /\ time < c.delivery.end

(* Optional[Container] / Optional[Position]: None *)
None == [identifier |-> -1, size |-> 0, value |-> 0,
         arrival |-> TimeRange(0, 0), delivery |-> TimeRange(0, 0)]

Absent == <<-1, -1>>

----------------------------------------------------------------------------
(* Store: pure operators over a Store value s *)

NewStore(width) ==
    [width |-> width, cash |-> 0,
     containers |-> [i \in 0..width-1 |-> <<>>],
     container_loc |-> <<>>]

width(s) == s.width

cash(s) == s.cash

add_cash(s, amount) == [s EXCEPT !.cash = @ + amount]

get_column(s, p) == s.containers[p]

get_column_height(s, p) == Len(s.containers[p])

location(s, c) ==
    IF c.identifier \in DOMAIN s.container_loc
    THEN s.container_loc[c.identifier]
    ELSE Absent

(* `a is not b` on ints: value inequality inside the small-int cache,      *)
(* object identity outside it.                                             *)
IsNot(a, b) == a # b \/ (~int_is_value /\ a > SmallIntMax)

(* can_add whose flat-base loop stops one column early *)
can_add_short(s, c, p) ==
    IF p + c.size > s.width
    THEN FALSE
    ELSE \A i \in (p+1)..(p+c.size-2) :
            Len(s.containers[i]) = Len(s.containers[p])

can_add(s, c, p) ==
    IF p + c.size > width(s)
    THEN FALSE
    ELSE \A i \in (p+1)..(p+c.size-1) :
            Len(s.containers[i]) = Len(s.containers[p])

can_remove(s, c) ==
    LET l == location(s, c)
    IN  IF c.value = -1 \/ l = Absent
        THEN FALSE
        ELSE \A i \in l[2]..(l[2]+c.size-1) :
                ~IsNot(Len(s.containers[i]) - 1, l[1])

dumb_container(c) == Container(c.identifier, 1, -1, c.arrival, c.delivery)

LocUpdate(loc, k, v) == [x \in (DOMAIN loc) \cup {k} |-> IF x = k THEN v ELSE loc[x]]

LocPop(loc, k) == [x \in (DOMAIN loc) \ {k} |-> loc[x]]

Pop(col) == SubSeq(col, 1, Len(col) - 1)

(* add that forgets the last simple Container *)
add_short(s, c, p) ==
    IF can_add(s, c, p)
    THEN [s EXCEPT
            !.containers = [i \in DOMAIN @ |->
                IF i = p THEN Append(@[i], c)
                ELSE IF i \in (p+1)..(p+c.size-2)
                     THEN Append(@[i], dumb_container(c))
                     ELSE @[i]],
            !.container_loc = LocUpdate(@, c.identifier, <<Len(s.containers[p]), p>>)]
    ELSE s

add(s, c, p) ==
    IF can_add(s, c, p)
    THEN [s EXCEPT
            !.containers = [i \in DOMAIN @ |->
                IF i = p THEN Append(@[i], c)
                ELSE IF i \in (p+1)..(p+c.size-1)
                     THEN Append(@[i], dumb_container(c))
                     ELSE @[i]],
            !.container_loc = LocUpdate(@, c.identifier, <<Len(s.containers[p]), p>>)]
    ELSE s

(* remove that leaves the entry of c in the location dictionary *)
remove_keep_loc(s, c) ==
    IF c.value > -1 /\ can_remove(s, c)
    THEN LET loc == location(s, c)
         IN  [s EXCEPT
                !.containers = [i \in DOMAIN @ |->
                    IF i \in loc[2]..(loc[2]+c.size-1) THEN Pop(@[i]) ELSE @[i]]]
    ELSE s

remove(s, c) ==
    IF c.value > -1 /\ can_remove(s, c)
    THEN LET loc == location(s, c)
         IN  [s EXCEPT
                !.containers = [i \in DOMAIN @ |->
                    IF i \in loc[2]..(loc[2]+c.size-1) THEN Pop(@[i]) ELSE @[i]],
                !.container_loc = LocPop(@, c.identifier)]
    ELSE s

(* move that does not ask can_add before removing *)
move_unchecked(s, c, p) ==
    IF c.value # -1 /\ can_remove(s, c)
    THEN add(remove(s, c), c, p)
    ELSE s

move(s, c, p) ==
    IF c.value # -1 /\ can_remove(s, c) /\ can_add(s, c, p)
    THEN add(remove(s, c), c, p)
    ELSE s

RECURSIVE LeftCorner(_, _)
LeftCorner(s, p) ==
    IF s.containers[p][Len(s.containers[p])].value = -1 /\ p >= 0
    THEN LeftCorner(s, p - 1)
    ELSE p

top_container(s, p) ==
    IF Len(s.containers[p]) # 0
    THEN LET q == LeftCorner(s, p) IN s.containers[q][Len(s.containers[q])]
    ELSE None

----------------------------------------------------------------------------
(* The Store driven through its public API by a caller *)

Positions == 0..(YardWidth - 1)

ApiUnit(i, sz) == Container(i, sz, i, TimeRange(0, 1), TimeRange(0, 1))

(* the run counters of hist stop counting here *)
MaxRuns == 2

NoHist == [rejected |-> {}, empty_runs |-> 0, move_all_runs |-> 0, began |-> 0]

NoCall == [op |-> "none", c |-> 0, p |-> 0, done |-> FALSE]

(* Optional[Position] and Optional[Tuple[Container, Position]]: None *)
NoPos == -1

NoneT == <<None, NoPos>>

(* no Strategy object: the Store is driven directly *)
NoStrategy == [time |-> 0, next_time |-> 0, end |-> 0, emptied |-> FALSE, moved |-> TRUE]

NoCtl == [pc |-> "api", stack |-> <<>>, next_c |-> NoneT, pos |-> NoPos,
          candidate_1 |-> NoneT, candidate_2 |-> NoneT, dir |-> 1,
          i |-> 0, hi |-> 0, mc |-> NoneT, ac |-> <<0, 0>>, ap |-> NoPos]

(* The caller's Containers: sizes 1..MaxSize, identifiers 1..NumUnits *)
ApiStreams ==
    {[i \in 1..NumUnits |-> ApiUnit(i, szs[i])] :
        szs \in {f \in [1..NumUnits -> 1..MaxSize] :
                    \A i \in 1..(NumUnits - 1) : f[i] <= f[i+1]}}

Init ==
    /\ store = NewStore(YardWidth)
    /\ stream \in ApiStreams
    /\ last = NoCall
    /\ int_is_value \in BOOLEAN
    /\ hist = NoHist
    /\ strategy = NoStrategy
    /\ ctl = NoCtl
    /\ log = <<>>

(* store.add(c, p) on a column lower than cap *)
AddCall(c, p, cap) ==
    /\ get_column_height(store, p) < cap
    /\ store' = add(store, c, p)
    /\ last' = [op |-> "add", c |-> c.identifier, p |-> p, done |-> store' # store]
    /\ UNCHANGED <<stream, int_is_value, hist, strategy, ctl, log>>

(* store.move(c, p) to a column lower than cap *)
MoveCall(c, p, cap) ==
    /\ get_column_height(store, p) < cap
    /\ store' = move(store, c, p)
    /\ last' = [op |-> "move", c |-> c.identifier, p |-> p, done |-> store' # store]
    /\ UNCHANGED <<stream, int_is_value, hist, strategy, ctl, log>>

(* add of a Container that is not in the Store *)
Add(c, p) ==
    /\ location(store, c) = Absent
    /\ AddCall(c, p, MaxHeight)

Remove(c) ==
    /\ store' = remove(store, c)
    /\ last' = [op |-> "remove", c |-> c.identifier, p |-> 0, done |-> store' # store]
    /\ UNCHANGED <<stream, int_is_value, hist, strategy, ctl, log>>

Move(c, p) == MoveCall(c, p, MaxHeight)

AddCash(amount) ==
    /\ cash(store) < MaxCash
    /\ store' = add_cash(store, amount)
    /\ last' = [op |-> "add_cash", c |-> 0, p |-> amount, done |-> TRUE]
    /\ UNCHANGED <<stream, int_is_value, hist, strategy, ctl, log>>

Next ==
    \/ \E i \in 1..NumUnits, p \in Positions : Add(stream[i], p)
    \/ \E i \in 1..NumUnits : Remove(stream[i])
    \/ \E i \in 1..NumUnits, p \in Positions : Move(stream[i], p)
    \/ AddCash(1)

Spec == Init /\ [][Next]_vars

----------------------------------------------------------------------------
(* A caller that also adds a Container that is already in the Store *)

MaxCopies == 2      \* add is not called for a Container with this many main cells

MainCells(s, id) ==
    {<<r, i>> \in (0..MaxHeight) \X (0..(s.width - 1)) :
        /\ r < Len(s.containers[i])
        /\ s.containers[i][r+1].identifier = id
        /\ s.containers[i][r+1].value # -1}

AddPresent(c, p) ==
    /\ location(store, c) # Absent
    /\ Cardinality(MainCells(store, c.identifier)) < MaxCopies
    /\ AddCall(c, p, MaxHeight)

NextDup ==
    \/ Next
    \/ \E i \in 1..NumUnits, p \in Positions : AddPresent(stream[i], p)

SpecDup == Init /\ [][NextDup]_vars

----------------------------------------------------------------------------
(* A Store whose column 0 has been stacked beyond the small-int cache *)

TallBase == SmallIntMax + 1

Filler(k) == Container(NumUnits + k, 1, 0, TimeRange(0, 1), TimeRange(0, 1))

(* the Store after add(Filler(1), 0), ..., add(Filler(TallBase), 0) *)
TallStore ==
    [width |-> YardWidth, cash |-> 0,
     containers |-> [i \in 0..(YardWidth - 1) |->
                        IF i = 0 THEN [k \in 1..TallBase |-> Filler(k)] ELSE <<>>],
     container_loc |-> [id \in (NumUnits + 1)..(NumUnits + TallBase) |->
                        <<id - NumUnits - 1, 0>>]]

Cap(p) == IF p = 0 THEN TallBase + MaxHeight ELSE MaxHeight

InitTall ==
    /\ store = TallStore
    /\ stream \in ApiStreams
    /\ last = NoCall
    /\ int_is_value \in BOOLEAN
    /\ hist = NoHist
    /\ strategy = NoStrategy
    /\ ctl = NoCtl
    /\ log = <<>>

TallAdd(c, p) ==
    /\ location(store, c) = Absent
    /\ AddCall(c, p, Cap(p))

TallMove(c, p) == MoveCall(c, p, Cap(p))

NextTall ==
    \/ \E i \in 1..NumUnits, p \in Positions : TallAdd(stream[i], p)
    \/ \E i \in 1..NumUnits : Remove(stream[i])
    \/ \E i \in 1..NumUnits, p \in Positions : TallMove(stream[i], p)

SpecTall == InitTall /\ [][NextTall]_vars

----------------------------------------------------------------------------
(* Strategy (expert.py): pure operators *)

(* Area boundaries and stage length.  The source has s2 = 15, s3 = 25,     *)
(* s4 = width and T = 2995; the model keeps the layout and scales it down. *)
s1 == 0
s2 == 3
s3 == 4
SchedWidth == 6
T == 6

s4 == width(store)

NumArrivals == 3    \* Containers in the input stream

(* get_column_height(p) raises ValueError *)
get_column_height_raises(s, p) == p < 0 \/ p >= width(s)

RECURSIVE maxheight_loop(_, _, _, _)
maxheight_loop(s, i, pf, max) ==
    IF i >= pf
    THEN max
    ELSE LET h == get_column_height(s, i)
         IN  maxheight_loop(s, i + 1, pf, IF h > max THEN h ELSE max)

maxheight(s, p0, pf) == maxheight_loop(s, p0 + 1, pf, get_column_height(s, p0))

(* the loop of movable, i from df-1 down to d0; acc = <<first, hmin, p>> *)
RECURSIVE movable_loop(_, _, _, _, _, _)
movable_loop(s, c, i, d0, df, acc) ==
    IF i < d0
    THEN acc
    ELSE IF can_add(s, c, i) /\ i + (c.size - 1) < df
         THEN LET h == get_column_height(s, i)
              IN  IF acc[1]
                  THEN movable_loop(s, c, i - 1, d0, df, <<FALSE, h, i>>)
                  ELSE IF h < acc[2]
                       THEN movable_loop(s, c, i - 1, d0, df, <<FALSE, h, i>>)
                       ELSE movable_loop(s, c, i - 1, d0, df, acc)
         ELSE movable_loop(s, c, i - 1, d0, df, acc)

(* movable that stops at the first admitting column it meets *)
movable_first(s, c, d0, df) ==
    LET ok == {i \in d0..(df - 1) : can_add(s, c, i) /\ i + (c.size - 1) < df}
    IN  IF ok = {} THEN NoPos ELSE CHOOSE i \in ok : \A j \in ok : j <= i

movable(s, c, d0, df) ==
    LET r == movable_loop(s, c, df - 1, d0, df, <<TRUE, 0, NoPos>>)
    IN  IF ~r[1] THEN r[3] ELSE NoPos

RECURSIVE can_move_loop(_, _, _, _, _)
can_move_loop(s, i, pf, d0, df) ==
    IF i >= pf
    THEN NoneT
    ELSE LET top == top_container(s, i)
         IN  IF top # None /\ can_remove(s, top)
             THEN LET destiny == movable(s, top, d0, df)
                  IN  IF destiny # NoPos
                      THEN <<top, destiny>>
                      ELSE can_move_loop(s, i + 1, pf, d0, df)
             ELSE can_move_loop(s, i + 1, pf, d0, df)

can_move(s, p0, pf, d0, df) == can_move_loop(s, p0, pf, d0, df)

(* accept that looks at the value per column only *)
accept_value_only(c, end) == ~(c.value \div c.size < 1)

accept(c, end) == ~(c.value \div c.size < 1 /\ c.delivery.start > end)

next_pos(s, end, next_c) ==
    IF next_c # NoneT
    THEN IF next_c[1].delivery.start > end
         THEN LET newpos == movable(s, next_c[1], s3, s4)
              IN  IF newpos # NoPos THEN newpos ELSE next_c[2]
         ELSE next_c[2]
    ELSE NoPos

next_pos_1(s, end, next_c) ==
    IF next_c # NoneT
    THEN IF next_c[1].delivery.start > end
         THEN LET newpos == movable(s, next_c[1], s2, s3)
              IN  IF newpos # NoPos THEN newpos ELSE next_c[2]
         ELSE next_c[2]
    ELSE NoPos

(* What a disposal, placement or move changes: w = [store, time, log, last] *)
Line(t, what, a, b) == <<t, what, a, b>>

(* remove_container writing its lines at the head of the log *)
remove_container_front(w, nt, c) ==
    IF w.time < nt /\ can_remove(w.store, c)
    THEN LET st == remove(w.store, c)
         IN  [store |-> st,
              log |-> <<Line(w.time, "REMOVE", c.identifier, NoPos),
                        Line(w.time, "CASH", cash(st), NoPos)>> \o w.log,
              time |-> w.time + 1,
              last |-> [op |-> "remove", c |-> c.identifier, p |-> 0,
                        done |-> st # w.store]]
    ELSE w

remove_container(w, nt, c) ==
    IF w.time < nt /\ can_remove(w.store, c)
    THEN LET st == remove(w.store, c)
         IN  [store |-> st,
              log |-> w.log \o <<Line(w.time, "REMOVE", c.identifier, NoPos),
                                 Line(w.time, "CASH", cash(st), NoPos)>>,
              time |-> w.time + 1,
              last |-> [op |-> "remove", c |-> c.identifier, p |-> 0,
                        done |-> st # w.store]]
    ELSE w

(* deliver_container without the removal *)
deliver_container_keep(w, nt, c) ==
    IF w.time < nt /\ can_remove(w.store, c) /\ deliverable(c, w.time)
    THEN LET paid == add_cash(w.store, c.value)
         IN  [store |-> paid,
              log |-> w.log \o <<Line(w.time, "REMOVE", c.identifier, NoPos),
                                 Line(w.time, "CASH", cash(paid), NoPos)>>,
              time |-> w.time + 1,
              last |-> [op |-> "remove", c |-> c.identifier, p |-> 0,
                        done |-> FALSE]]
    ELSE w

deliver_container(w, nt, c) ==
    IF w.time < nt /\ can_remove(w.store, c) /\ deliverable(c, w.time)
    THEN LET paid == add_cash(w.store, c.value)
             st == remove(paid, c)
         IN  [store |-> st,
              log |-> w.log \o <<Line(w.time, "REMOVE", c.identifier, NoPos),
                                 Line(w.time, "CASH", cash(st), NoPos)>>,
              time |-> w.time + 1,
              last |-> [op |-> "remove", c |-> c.identifier, p |-> 0,
                        done |-> st # paid]]
    ELSE w

(* check that leaves an expired Container where it is *)
check_no_expiry(w, nt, c) ==
    IF c # None /\ w.time < nt
    THEN IF deliverable(c, w.time)
         THEN deliver_container(w, nt, c)
         ELSE w
    ELSE w

check(w, nt, c) ==
    IF c # None /\ w.time < nt
    THEN IF expired(c, w.time)
         THEN remove_container(w, nt, c)
         ELSE IF deliverable(c, w.time)
              THEN deliver_container(w, nt, c)
              ELSE w
    ELSE w

(* the value check returns *)
check_value(w, nt, c) ==
    ~(c # None /\ w.time < nt /\ (expired(c, w.time) \/ deliverable(c, w.time)))

check_top(w, nt, p) ==
    IF p # NoPos
    THEN LET c == top_container(w.store, p)
         IN  IF c # None THEN check(w, nt, c) ELSE w
    ELSE w

(* check_all / check_all2 from column i: the first column whose check acts, or hi *)
RECURSIVE sweep_next(_, _, _, _)
sweep_next(w, nt, i, hi) ==
    IF i >= hi
    THEN hi
    ELSE LET top == top_container(w.store, i)
         IN  IF top # None /\ check(w, nt, top) # w
             THEN i
             ELSE sweep_next(w, nt, i + 1, hi)

----------------------------------------------------------------------------
(* Strategy.exec, one step per action *)

World == [store |-> store, time |-> strategy.time, log |-> log, last |-> last]

Commit(w) ==
    /\ store' = w.store
    /\ strategy' = [strategy EXCEPT !.time = w.time]
    /\ log' = w.log
    /\ last' = w.last

nt == strategy.next_time

InTime == strategy.time < strategy.next_time

(* the Container being processed by exec *)
cur == stream[Len(stream)]

Goto(ct, l) == [ct EXCEPT !.pc = l]

Call(ct, l, ret) == [ct EXCEPT !.pc = l, !.stack = <<ret>> \o @]

Return(ct) == [ct EXCEPT !.pc = Head(ct.stack), !.stack = Tail(ct.stack)]

CallSweep(ct, lo, hi, ret) == [Call(ct, "sweep", ret) EXCEPT !.i = lo, !.hi = hi]

CallMove(ct, c, p, ret) == [Call(ct, "mc_check", ret) EXCEPT !.mc = <<c, p>>]

CallAdd(ct, d0, df, ret) == [Call(ct, "ac_check", ret) EXCEPT !.ac = <<d0, df>>]

WaitCtl == [NoCtl EXCEPT !.pc = "wait"]

(* The input: as generateContainers, arrival = [now, now+step) with now    *)
(* the end of the previous arrival, delivery = [begin, end) with begin >=  *)
(* now and end > begin. A kind is <<size, value, step, begin - now,        *)
(* end - begin>>.                                                          *)
Kinds ==
    {
     <<1, 2, 1, 1, 2>>, <<1, 2, 1, 3, 2>>, <<1, 2, 1, 7, 2>>,
     <<1, 2, 4, 7, 2>>, <<1, 2, 5, 2, 2>>, <<2, 1, 1, 1, 2>>,
     <<2, 1, 1, 7, 2>>, <<2, 1, 5, 2, 2>>, <<2, 2, 1, 1, 2>>,
     <<2, 2, 1, 3, 2>>, <<2, 2, 4, 7, 2>>
    }

Now == IF stream = <<>> THEN 0 ELSE stream[Len(stream)].arrival.end

NextUnits ==
    {Container(Len(stream) + 1, k[1], k[2],
               TimeRange(Now, Now + k[3]),
               TimeRange(Now + k[4], Now + k[4] + k[5])) : k \in Kinds}

InitSched ==
    /\ store = NewStore(SchedWidth)
    /\ stream = <<>>
    /\ last = NoCall
    /\ int_is_value \in BOOLEAN
    /\ hist = NoHist
    /\ strategy = [time |-> 0, next_time |-> 0, end |-> 0,
                   emptied |-> FALSE, moved |-> TRUE]
    /\ ctl = WaitCtl
    /\ log = <<Line(0, "START", 0, SchedWidth)>>

Min(a, b) == IF a <= b THEN a ELSE b

(* exec lines 298-299: whether the arrival of c begins a new stage *)
new_stage(c) ==
    /\ accept(c, strategy.end)
    /\ ~get_column_height_raises(store, s3)
    /\ strategy.end <= Min(c.arrival.end,
                            strategy.time + maxheight(store, s3, s4) * (s4 - s3))

(* exec lines 297-307: next_time, accept, stage check, first add_container *)
Exec(c) ==
    /\ ctl.pc = "wait"
    /\ Len(stream) < NumArrivals
    /\ stream' = Append(stream, c)
    /\ IF accept(c, strategy.end)
       THEN IF get_column_height_raises(store, s3)
            THEN /\ strategy' = [strategy EXCEPT !.next_time = c.arrival.end]
                 /\ ctl' = Goto(ctl, "raised")
            ELSE LET begins == new_stage(c)
                     end == IF begins THEN strategy.time + T ELSE strategy.end
                 IN  /\ strategy' = [strategy EXCEPT
                            !.next_time = c.arrival.end,
                            !.end = end,
                            !.emptied = IF begins THEN FALSE ELSE @,
                            !.moved = IF begins THEN FALSE ELSE @]
                     /\ ctl' = IF c.delivery.start < end
                               THEN CallAdd(ctl, s1, s2, "place_fb")
                               ELSE CallAdd(ctl, s3, s4, "place_fb")
       ELSE /\ strategy' = [strategy EXCEPT !.next_time = c.arrival.end]
            /\ ctl' = Goto(ctl, "hk_empty")
    /\ hist' = [hist EXCEPT
            !.rejected = IF accept(c, strategy.end) THEN @ ELSE @ \cup {c.identifier},
            !.empty_runs = IF new_stage(c) THEN 0 ELSE @,
            !.move_all_runs = IF new_stage(c) THEN 0 ELSE @,
            !.began = strategy.time]
    /\ UNCHANGED <<store, last, int_is_value, log>>

(* add_container lines 123-127: guard, movable, check_top(p) *)
AcCheck ==
    /\ ctl.pc = "ac_check"
    /\ IF ~InTime
       THEN /\ ctl' = Return(ctl)
            /\ UNCHANGED <<store, strategy, log, last>>
       ELSE LET p == movable(store, cur, ctl.ac[1], ctl.ac[2])
            IN  IF p = NoPos
                THEN /\ ctl' = Return(ctl)
                     /\ UNCHANGED <<store, strategy, log, last>>
                ELSE /\ Commit(check_top(World, nt, p))
                     /\ ctl' = [Goto(ctl, "ac_add") EXCEPT !.ap = p]
    /\ UNCHANGED <<stream, int_is_value, hist>>

(* add_container placing without the log line *)
AcAdd_silent ==
    /\ ctl.pc = "ac_add"
    /\ store' = add(store, cur, ctl.ap)
    /\ log' = log
    /\ strategy' = [strategy EXCEPT !.time = @ + 1]
    /\ last' = [op |-> "add", c |-> cur.identifier, p |-> ctl.ap,
                done |-> store' # store]
    /\ ctl' = [Return(ctl) EXCEPT !.ap = NoPos]
    /\ UNCHANGED <<stream, int_is_value, hist>>

(* add_container lines 128-130: store.add, log.add, time_increment *)
AcAdd ==
    /\ ctl.pc = "ac_add"
    /\ store' = add(store, cur, ctl.ap)
    /\ log' = Append(log, Line(strategy.time, "ADD", cur.identifier, ctl.ap))
    /\ strategy' = [strategy EXCEPT !.time = @ + 1]
    /\ last' = [op |-> "add", c |-> cur.identifier, p |-> ctl.ap,
                done |-> store' # store]
    /\ ctl' = [Return(ctl) EXCEPT !.ap = NoPos]
    /\ UNCHANGED <<stream, int_is_value, hist>>

(* exec lines 310-311: the fallback add_container over [s1, s4) *)
PlaceFb ==
    /\ ctl.pc = "place_fb"
    /\ ctl' = IF location(store, cur) = Absent
              THEN CallAdd(ctl, s1, s4, "hk_empty")
              ELSE Goto(ctl, "hk_empty")
    /\ UNCHANGED <<store, stream, last, int_is_value, hist, strategy, log>>

(* exec lines 314-315 and empty lines 452-453 *)
HkEmpty ==
    /\ ctl.pc = "hk_empty"
    /\ ctl' = IF strategy.emptied
              THEN Goto(ctl, "hk_move")
              ELSE IF InTime
                   THEN CallSweep(ctl, 0, s3, "em_2")
                   ELSE Goto(ctl, "hk_move")
    /\ hist' = IF ~strategy.emptied /\ InTime
               THEN [hist EXCEPT !.empty_runs = Min(@ + 1, MaxRuns)]
               ELSE hist
    /\ UNCHANGED <<store, stream, last, int_is_value, strategy, log>>

(* empty lines 454-455 *)
Em2 ==
    /\ ctl.pc = "em_2"
    /\ strategy' = [strategy EXCEPT !.emptied = IF InTime THEN TRUE ELSE @]
    /\ ctl' = Goto(ctl, "hk_move")
    /\ UNCHANGED <<store, stream, last, int_is_value, hist, log>>

(* exec lines 317-318 and move_all lines 425-426 *)
HkMove ==
    /\ ctl.pc = "hk_move"
    /\ ctl' = IF strategy.moved
              THEN Goto(ctl, "sweep0")
              ELSE LET next_c == can_move(store, s3, s4, s1, s2)
                   IN  [Call(ctl, "ma_loop1", "sweep0") EXCEPT
                            !.next_c = next_c,
                            !.pos = next_pos_1(store, strategy.end, next_c)]
    /\ hist' = IF ~strategy.moved /\ InTime
               THEN [hist EXCEPT !.move_all_runs = Min(@ + 1, MaxRuns)]
               ELSE hist
    /\ UNCHANGED <<store, stream, last, int_is_value, strategy, log>>

(* move_all line 427 (and 434 when the first loop ends) *)
MaLoop1 ==
    /\ ctl.pc = "ma_loop1"
    /\ ctl' = IF ctl.next_c # NoneT /\ InTime
              THEN CallMove(ctl, ctl.next_c[1], ctl.pos, "ma_l1_a")
              ELSE [Goto(ctl, "ma_loop2") EXCEPT
                        !.next_c = can_move(store, s2, s3, s3, s4)]
    /\ UNCHANGED <<store, stream, last, int_is_value, hist, strategy, log>>

(* move_all line 429 *)
MaL1a ==
    /\ ctl.pc = "ma_l1_a"
    /\ ctl' = CallSweep(ctl, s3, s4, "ma_l1_b")
    /\ UNCHANGED <<store, stream, last, int_is_value, hist, strategy, log>>

(* move_all line 430 *)
MaL1b ==
    /\ ctl.pc = "ma_l1_b"
    /\ ctl' = CallSweep(ctl, 0, s3, "ma_l1_c")
    /\ UNCHANGED <<store, stream, last, int_is_value, hist, strategy, log>>

(* move_all lines 431-432 *)
MaL1c ==
    /\ ctl.pc = "ma_l1_c"
    /\ LET next_c == can_move(store, s3, s4, s1, s2)
       IN  ctl' = [Goto(ctl, "ma_loop1") EXCEPT
                        !.next_c = next_c,
                        !.pos = next_pos_1(store, strategy.end, next_c)]
    /\ UNCHANGED <<store, stream, last, int_is_value, hist, strategy, log>>

(* move_all line 435-436 (and 441-442 when the second loop ends) *)
MaLoop2 ==
    /\ ctl.pc = "ma_loop2"
    /\ ctl' = IF ctl.next_c # NoneT /\ InTime
              THEN CallSweep(ctl, s3, s4, "ma_l2_a")
              ELSE IF InTime
                   THEN CallSweep(ctl, s3, s4, "ma_e1")
                   ELSE Return(ctl)
    /\ UNCHANGED <<store, stream, last, int_is_value, hist, strategy, log>>

(* move_all line 437 *)
MaL2a ==
    /\ ctl.pc = "ma_l2_a"
    /\ ctl' = CallSweep(ctl, 0, s3, "ma_l2_b")
    /\ UNCHANGED <<store, stream, last, int_is_value, hist, strategy, log>>

(* move_all line 439 *)
MaL2b ==
    /\ ctl.pc = "ma_l2_b"
    /\ ctl' = CallMove(ctl, ctl.next_c[1], ctl.next_c[2], "ma_l2_c")
    /\ UNCHANGED <<store, stream, last, int_is_value, hist, strategy, log>>

(* move_all line 440 *)
MaL2c ==
    /\ ctl.pc = "ma_l2_c"
    /\ ctl' = [Goto(ctl, "ma_loop2") EXCEPT
                    !.next_c = can_move(store, s2, s3, s3, s4)]
    /\ UNCHANGED <<store, stream, last, int_is_value, hist, strategy, log>>

(* move_all line 443 *)
MaE1 ==
    /\ ctl.pc = "ma_e1"
    /\ ctl' = CallSweep(ctl, 0, s3, "ma_e2")
    /\ UNCHANGED <<store, stream, last, int_is_value, hist, strategy, log>>

(* the end of move_all clearing emptied *)
MaE2_clear ==
    /\ ctl.pc = "ma_e2"
    /\ strategy' = [strategy EXCEPT !.moved = TRUE, !.emptied = FALSE]
    /\ ctl' = Return(ctl)
    /\ UNCHANGED <<store, stream, last, int_is_value, hist, log>>

(* move_all line 445 *)
MaE2 ==
    /\ ctl.pc = "ma_e2"
    /\ strategy' = [strategy EXCEPT !.moved = TRUE]
    /\ ctl' = Return(ctl)
    /\ UNCHANGED <<store, stream, last, int_is_value, hist, log>>

(* exec line 320 *)
Sweep0 ==
    /\ ctl.pc = "sweep0"
    /\ ctl' = CallSweep(ctl, 0, s3, "cands")
    /\ UNCHANGED <<store, stream, last, int_is_value, hist, strategy, log>>

(* exec lines 325-330 and 390-393: candidate_1, candidate_2 *)
Cands ==
    /\ ctl.pc \in {"cands", "recand"}
    /\ LET candidate_1 == can_move(store, s1, s2, s2, s3)
           candidate_2 == can_move(store, s2, s3, s1, s2)
       IN  ctl' = [Goto(ctl, "outer") EXCEPT
                        !.candidate_1 = candidate_1,
                        !.candidate_2 = candidate_2,
                        !.next_c = IF ctl.pc = "cands" THEN candidate_1 ELSE @,
                        !.pos = IF ctl.pc = "cands" THEN NoPos ELSE @]
    /\ UNCHANGED <<store, stream, last, int_is_value, hist, strategy, log>>

(* exec lines 331-337 and 365-367: the outer loop test and the choice of the branch *)
Outer ==
    /\ ctl.pc = "outer"
    /\ ctl' = IF InTime /\ (ctl.candidate_1 # NoneT \/ ctl.candidate_2 # NoneT)
              THEN LET first == IF ctl.candidate_1 # NoneT
                                THEN ctl.candidate_1 ELSE ctl.candidate_2
                   IN  [Goto(ctl, "mid") EXCEPT
                            !.dir = IF ctl.candidate_1 # NoneT THEN 1 ELSE 2,
                            !.next_c = first,
                            !.pos = next_pos(store, strategy.end, first)]
              ELSE Goto(ctl, "idle")
    /\ UNCHANGED <<store, stream, last, int_is_value, hist, strategy, log>>

(* can_move in the direction of the branch (dir = 1: [s1,s2) to [s2,s3)) or against it *)
CanMoveDir(s, dir) ==
    IF dir = 1 THEN can_move(s, s1, s2, s2, s3) ELSE can_move(s, s2, s3, s1, s2)

Opposite(dir) == 3 - dir

(* exec lines 339 and 368 *)
Mid ==
    /\ ctl.pc = "mid"
    /\ ctl' = IF ctl.next_c # NoneT /\ InTime
              THEN Goto(ctl, "in1")
              ELSE Goto(ctl, "recand")
    /\ UNCHANGED <<store, stream, last, int_is_value, hist, strategy, log>>

(* exec lines 340-341 / 369-370, and 350 / 376 when the loop ends *)
In1 ==
    /\ ctl.pc = "in1"
    /\ ctl' = IF ctl.next_c # NoneT /\ InTime
              THEN CallMove(ctl, ctl.next_c[1], ctl.pos, "in1_a")
              ELSE CallSweep(ctl, 0, s3, "turn")
    /\ UNCHANGED <<store, stream, last, int_is_value, hist, strategy, log>>

(* exec lines 342-347 / 371-374 *)
In1a ==
    /\ ctl.pc = "in1_a"
    /\ LET next_c == CanMoveDir(store, ctl.dir)
       IN  ctl' = [CallSweep(ctl, 0, s3, "in1") EXCEPT
                        !.next_c = next_c,
                        !.pos = next_pos(store, strategy.end, next_c)]
    /\ UNCHANGED <<store, stream, last, int_is_value, hist, strategy, log>>

(* exec lines 351-352 / 377-378 *)
Turn ==
    /\ ctl.pc = "turn"
    /\ LET next_c == CanMoveDir(store, Opposite(ctl.dir))
       IN  ctl' = [Goto(ctl, "in2") EXCEPT
                        !.next_c = next_c,
                        !.pos = next_pos(store, strategy.end, next_c)]
    /\ UNCHANGED <<store, stream, last, int_is_value, hist, strategy, log>>

(* exec lines 353-354 / 379-380, and 360 / 386 when the loop ends *)
In2 ==
    /\ ctl.pc = "in2"
    /\ ctl' = IF ctl.next_c # NoneT /\ InTime
              THEN CallMove(ctl, ctl.next_c[1], ctl.pos, "in2_a")
              ELSE CallSweep(ctl, 0, s3, "back")
    /\ UNCHANGED <<store, stream, last, int_is_value, hist, strategy, log>>

(* exec lines 355-358 / 381-384 *)
In2a ==
    /\ ctl.pc = "in2_a"
    /\ LET next_c == CanMoveDir(store, Opposite(ctl.dir))
       IN  ctl' = [CallSweep(ctl, 0, s3, "in2") EXCEPT
                        !.next_c = next_c,
                        !.pos = next_pos(store, strategy.end, next_c)]
    /\ UNCHANGED <<store, stream, last, int_is_value, hist, strategy, log>>

(* exec lines 361-362 / 387-388 *)
Back ==
    /\ ctl.pc = "back"
    /\ LET next_c == CanMoveDir(store, ctl.dir)
       IN  ctl' = [Goto(ctl, "mid") EXCEPT
                        !.next_c = next_c,
                        !.pos = next_pos(store, strategy.end, next_c)]
    /\ UNCHANGED <<store, stream, last, int_is_value, hist, strategy, log>>

(* exec lines 395-396; the event ends when the loop test fails *)
Idle ==
    /\ ctl.pc = "idle"
    /\ ctl' = IF InTime
              THEN CallSweep(ctl, 0, s3, "tick")
              ELSE WaitCtl
    /\ UNCHANGED <<store, stream, last, int_is_value, hist, strategy, log>>

(* the idle loop without time_increment *)
Tick_still ==
    /\ ctl.pc = "tick"
    /\ strategy' = strategy
    /\ ctl' = Goto(ctl, "idle")
    /\ UNCHANGED <<store, stream, last, int_is_value, hist, log>>

(* exec line 397 *)
Tick ==
    /\ ctl.pc = "tick"
    /\ strategy' = [strategy EXCEPT !.time = @ + 1]
    /\ ctl' = Goto(ctl, "idle")
    /\ UNCHANGED <<store, stream, last, int_is_value, hist, log>>

(* check_all (lo = 0, hi = s3) and check_all2 (lo = s3, hi = s4): the next  *)
(* column whose top is removed or delivered; the sweep returns after the   *)
(* last such column.                                                       *)
Sweep ==
    /\ ctl.pc = "sweep"
    /\ LET j == sweep_next(World, nt, ctl.i, ctl.hi)
       IN  IF j < ctl.hi
           THEN /\ Commit(check(World, nt, top_container(store, j)))
                /\ ctl' = [ctl EXCEPT !.i = j + 1]
           ELSE /\ ctl' = [Return(ctl) EXCEPT !.i = 0, !.hi = 0]
                /\ UNCHANGED <<store, strategy, log, last>>
    /\ UNCHANGED <<stream, int_is_value, hist>>

(* move_container lines 467-469: check(c), then check_top(p) *)
McCheck ==
    /\ ctl.pc = "mc_check"
    /\ LET c == ctl.mc[1]
           p == ctl.mc[2]
       IN  IF check_value(World, nt, c)
           THEN /\ Commit(check_top(World, nt, p))
                /\ ctl' = Goto(ctl, "mc_move")
           ELSE /\ Commit(check(World, nt, c))
                /\ ctl' = [Return(ctl) EXCEPT !.mc = NoneT]
    /\ UNCHANGED <<stream, int_is_value, hist>>

(* move_container without time_increment *)
McMove_notick ==
    /\ ctl.pc = "mc_move"
    /\ LET c == ctl.mc[1]
           p == ctl.mc[2]
       IN  IF InTime /\ c # None /\ p # NoPos /\ can_remove(store, c)
           THEN /\ store' = move(store, c, p)
                /\ log' = Append(log, Line(strategy.time, "MOVE", c.identifier, p))
                /\ strategy' = strategy
                /\ last' = [op |-> "move", c |-> c.identifier, p |-> p,
                            done |-> store' # store]
           ELSE UNCHANGED <<store, strategy, log, last>>
    /\ ctl' = [Return(ctl) EXCEPT !.mc = NoneT]
    /\ UNCHANGED <<stream, int_is_value, hist>>

(* move_container lines 471-474: store.move, log.move, time_increment *)
McMove ==
    /\ ctl.pc = "mc_move"
    /\ LET c == ctl.mc[1]
           p == ctl.mc[2]
       IN  IF InTime /\ c # None /\ p # NoPos /\ can_remove(store, c)
           THEN /\ store' = move(store, c, p)
                /\ log' = Append(log, Line(strategy.time, "MOVE", c.identifier, p))
                /\ strategy' = [strategy EXCEPT !.time = @ + 1]
                /\ last' = [op |-> "move", c |-> c.identifier, p |-> p,
                            done |-> store' # store]
           ELSE UNCHANGED <<store, strategy, log, last>>
    /\ ctl' = [Return(ctl) EXCEPT !.mc = NoneT]
    /\ UNCHANGED <<stream, int_is_value, hist>>

NextSched ==
    \/ \E c \in NextUnits : Exec(c)
    \/ AcCheck \/ AcAdd \/ PlaceFb
    \/ HkEmpty \/ Em2 \/ HkMove
    \/ MaLoop1 \/ MaL1a \/ MaL1b \/ MaL1c
    \/ MaLoop2 \/ MaL2a \/ MaL2b \/ MaL2c \/ MaE1 \/ MaE2
    \/ Sweep0 \/ Cands \/ Outer \/ Mid
    \/ In1 \/ In1a \/ Turn \/ In2 \/ In2a \/ Back
    \/ Idle \/ Tick
    \/ Sweep \/ McCheck \/ McMove

SpecSched == InitSched /\ [][NextSched]_vars

----------------------------------------------------------------------------
(* Properties of the Store *)

Height(s, i) == Len(s.containers[i])

CellAt(s, r, i) == s.containers[i][r + 1]

IsMain(cell, u) == cell.identifier = u.identifier /\ cell.value # -1

IsShadow(cell, u) == cell.identifier = u.identifier /\ cell.value = -1

Footprint(u, p) == p..(p + u.size - 1)

(* u lies at row r with its main cell in column p and its simple cells to the right *)
LiesAt(s, u, r, p) ==
    /\ p >= 0 /\ p + u.size <= s.width
    /\ \A j \in Footprint(u, p) : Height(s, j) > r
    /\ IsMain(CellAt(s, r, p), u)
    /\ \A j \in Footprint(u, p) \ {p} : IsShadow(CellAt(s, r, j), u)

(* u lies at row r, column p and nothing is above any of its cells *)
OnTopAt(s, u, r, p) ==
    /\ LiesAt(s, u, r, p)
    /\ \A j \in Footprint(u, p) : Height(s, j) = r + 1

Called(l, op, i, p) == l.op = op /\ l.c = i /\ l.p = p

(* C1: after move(u, p) on a unit u that is in the Store, either the Store
   is unchanged or u lies with its main cell at column p; u is never lost. *)
C1_MoveAtomic ==
    [][\A i \in 1..NumUnits, p \in Positions :
        (Called(last', "move", i, p) /\ location(store, stream[i]) # Absent)
        => \/ store' = store
           \/ /\ location(store', stream[i]) # Absent
              /\ location(store', stream[i])[2] = p
              /\ LiesAt(store', stream[i], location(store', stream[i])[1], p)]_vars

(* C2: top_container(p) is None iff column p is empty, and otherwise it is
   the main Container of the unit whose cell is the topmost cell of column p. *)
C2_TopOwner ==
    \A p \in Positions :
        LET t == top_container(store, p)
            h == Height(store, p)
        IN  /\ (t = None) <=> (h = 0)
            /\ h > 0 => \E q \in 0..p :
                            /\ q + t.size > p
                            /\ LiesAt(store, t, h - 1, q)

(* C5: can_add(u, p) is true iff p + u.size <= width and all columns of
   [p, p + u.size) have the same height, for every p >= 0. *)
C5_CanAdd ==
    \A i \in 1..NumUnits, p \in 0..(YardWidth + 1) :
        can_add(store, stream[i], p)
        <=> /\ p + stream[i].size <= YardWidth
            /\ \A a, b \in Footprint(stream[i], p) :
                    Height(store, a) = Height(store, b)

C5_Witness ==
    \E i \in 1..NumUnits, p, q \in Positions :
        /\ stream[i].size >= 2
        /\ p + stream[i].size <= YardWidth
        /\ ~can_add(store, stream[i], p)
        /\ can_add(store, stream[i], q)
        /\ Height(store, q) > 0

(* C6: a successful add(u, p) of a unit that is not in the Store appends the
   main cell to column p and one simple cell to each other footprint column,
   sets location(u) to (old height of p, p), and leaves every other column,
   every other location and the cash unchanged. *)
C6_AddEffect ==
    [][\A i \in 1..NumUnits, p \in Positions :
        (/\ Called(last', "add", i, p)
         /\ can_add(store, stream[i], p)
         /\ location(store, stream[i]) = Absent)
        => LET u == stream[i]
               h == Height(store, p)
           IN  /\ \A j \in Footprint(u, p) :
                    /\ Height(store', j) = Height(store, j) + 1
                    /\ Height(store', j) = h + 1
                    /\ SubSeq(store'.containers[j], 1, h) = store.containers[j]
               /\ OnTopAt(store', u, h, p)
               /\ location(store', u) = <<h, p>>
               /\ \A j \in Positions \ Footprint(u, p) :
                    store'.containers[j] = store.containers[j]
               /\ \A k \in 1..NumUnits \ {i} :
                    location(store', stream[k]) = location(store, stream[k])
               /\ cash(store') = cash(store)]_vars

C6_Witness ==
    \E i \in 1..NumUnits :
        /\ last.op = "add" /\ last.c = i /\ last.done
        /\ stream[i].size >= 2
        /\ location(store, stream[i]) = <<1, last.p>>
        /\ cash(store) > 0

(* C7: add when can_add is false, remove when can_remove is false and move
   when can_remove or can_add is false leave the Store exactly unchanged. *)
C7_NoOps ==
    [][\A i \in 1..NumUnits, p \in Positions :
        LET u == stream[i]
        IN  /\ (Called(last', "add", i, p) /\ ~can_add(store, u, p))
                => store' = store
            /\ (Called(last', "remove", i, 0) /\ ~can_remove(store, u))
                => store' = store
            /\ (Called(last', "move", i, p)
                    /\ (~can_remove(store, u) \/ ~can_add(store, u, p)))
                => store' = store]_vars

(* a move of a removable unit to a base that is not flat has been called *)
C7_Witness ==
    \E i \in 1..NumUnits :
        /\ last.op = "move" /\ last.c = i /\ ~last.done
        /\ can_remove(store, stream[i])
        /\ last.p + stream[i].size <= YardWidth
        /\ ~can_add(store, stream[i], last.p)

(* C8: can_remove(u) is true iff u is in the Store as a main Container and
   its cells are the topmost entries of all columns of its footprint. *)
C8_CanRemove ==
    \A i \in 1..NumUnits :
        can_remove(store, stream[i])
        <=> \E p \in Positions :
                /\ Height(store, p) > 0
                /\ OnTopAt(store, stream[i], Height(store, p) - 1, p)

(* C9: a successful remove(u) pops the top entry of each footprint column
   and the location of u, and leaves every other column, every other
   location and the cash unchanged. *)
C9_RemoveEffect ==
    [][\A i \in 1..NumUnits :
        (Called(last', "remove", i, 0) /\ can_remove(store, stream[i]))
        => LET u == stream[i]
               l == location(store, u)
           IN  /\ OnTopAt(store, u, l[1], l[2])
               /\ \A j \in Footprint(u, l[2]) :
                    /\ Height(store', j) = Height(store, j) - 1
                    /\ store'.containers[j] = SubSeq(store.containers[j], 1, l[1])
               /\ location(store', u) = Absent
               /\ \A j \in Positions \ Footprint(u, l[2]) :
                    store'.containers[j] = store.containers[j]
               /\ \A k \in 1..NumUnits \ {i} :
                    location(store', stream[k]) = location(store, stream[k])
               /\ cash(store') = cash(store)]_vars

(* a unit of size >= 2 lying on another unit has been removed *)
C9_Witness ==
    \E i \in 1..NumUnits, p \in Positions :
        /\ last.op = "remove" /\ last.c = i /\ last.done
        /\ stream[i].size >= 2
        /\ location(store, stream[i]) = Absent
        /\ Height(store, p) = 1
        /\ cash(store) > 0

(* C10: location(u) is (-1,-1) iff no main cell of u is in any column, and
   otherwise there is exactly one main cell of u and location(u) is its
   (row, column). *)
C10_LocationConsistent ==
    \A i \in 1..NumUnits :
        LET cells == MainCells(store, i)
        IN  /\ (location(store, stream[i]) = Absent) <=> (cells = {})
            /\ cells # {} => cells = {location(store, stream[i])}


----------------------------------------------------------------------------
(* Properties of the Strategy *)

(* the lines a step appends to the log *)
Written == {k \in 1..Len(log') : k > Len(log)}

(* C3: while a Container is processed, no step changes the Store (add, move,
   remove, cash) or writes a log line at a time >= next_time, the placement
   that follows the disposal of the destination's top included. *)
C3_TimeBudget ==
    [][(store' # store \/ log' # log) => strategy.time < strategy.next_time]_vars

(* C4: every ADD, MOVE and REMOVE line written to the log is written by a
   step whose Store operation succeeded: after an ADD or MOVE of u to p the
   Store has changed and u lies with its main cell at column p, after a
   REMOVE of u the Store has changed and u has no location. *)
C4_LogFaithful ==
    [][\A k \in Written :
        LET l == log'[k]
            u == stream[l[3]]
        IN  /\ l[2] \in {"ADD", "MOVE"}
                => /\ store' # store
                   /\ location(store', u) # Absent
                   /\ location(store', u)[2] = l[4]
                   /\ LiesAt(store', u, location(store', u)[1], l[4])
            /\ l[2] = "REMOVE"
                => /\ store' # store
                   /\ location(store', u) = Absent]_vars

(* the log lines that record a delivery: REMOVE of u at a time inside u's
   delivery window *)
IsDelivery(l) == l[2] = "REMOVE" /\ deliverable(stream[l[3]], l[1])

Deliveries_of(lg, i) == {k \in 1..Len(lg) : IsDelivery(lg[k]) /\ lg[k][3] = i}

RECURSIVE SumDelivered(_, _)
SumDelivered(lg, k) ==
    IF k = 0
    THEN 0
    ELSE SumDelivered(lg, k - 1)
         + (IF IsDelivery(lg[k]) THEN stream[lg[k][3]].value ELSE 0)

(* C11: cash never decreases; a step changes it only by delivering one unit
   u, which is in the Store before the step and not after it, at a time
   inside u's delivery window, by exactly u.value; no unit is delivered
   twice, and cash is the sum of the values of the delivered units. *)
C11_CashMonotone ==
    [][/\ cash(store') >= cash(store)
       /\ cash(store') # cash(store)
            => \E i \in 1..Len(stream) :
                LET u == stream[i]
                IN  /\ location(store, u) # Absent
                    /\ location(store', u) = Absent
                    /\ deliverable(u, strategy.time)
                    /\ cash(store') = cash(store) + u.value
                    /\ Deliveries_of(log, i) = {}
                    /\ Cardinality(Deliveries_of(log', i)) = 1
       /\ \A i \in 1..Len(stream') : Cardinality(Deliveries_of(log', i)) <= 1
       /\ cash(store') = SumDelivered(log', Len(log'))]_vars

(* two units have been delivered and a third one has been removed unpaid *)
C11_Witness ==
    /\ Cardinality({i \in 1..Len(stream) : Deliveries_of(log, i) # {}}) >= 2
    /\ \E k \in 1..Len(log) : log[k][2] = "REMOVE" /\ ~IsDelivery(log[k])
    /\ cash(store) >= 2

(* C12: check of a removable unit u at time t < next_time removes u and
   leaves cash unchanged if t >= u.delivery.end, removes u and credits
   u.value if u.delivery.start <= t < u.delivery.end, and changes nothing
   otherwise. *)
C12_DisposalRule ==
    \A i \in 1..Len(stream) :
        LET u == stream[i]
            t == strategy.time
            w == check(World, nt, u)
        IN  (can_remove(store, u) /\ t < strategy.next_time)
            => IF t >= u.delivery.end
               THEN /\ location(w.store, u) = Absent
                    /\ \A p \in 0..(SchedWidth - 1) : \A r \in 0..(Height(w.store, p) - 1) :
                            CellAt(w.store, r, p).identifier # u.identifier
                    /\ cash(w.store) = cash(store)
               ELSE IF u.delivery.start <= t
                    THEN /\ location(w.store, u) = Absent
                         /\ \A p \in 0..(SchedWidth - 1) : \A r \in 0..(Height(w.store, p) - 1) :
                                CellAt(w.store, r, p).identifier # u.identifier
                         /\ cash(w.store) = cash(store) + u.value
                    ELSE w = World

(* an expired unit has been removed unpaid and another has been delivered,
   and with time left a removable unit waits for its delivery window *)
C12_Witness ==
    /\ InTime
    /\ \E k \in 1..Len(log) : log[k][2] = "REMOVE" /\ expired(stream[log[k][3]], log[k][1])
    /\ \E k \in 1..Len(log) : IsDelivery(log[k])
    /\ \E i \in 1..Len(stream) :
        /\ can_remove(store, stream[i])
        /\ stream[i].delivery.start > strategy.time

(* the cells of the Store that belong to the unit with identifier i *)
CellsOf(s, i) ==
    {rp \in (0..NumArrivals) \X (0..(s.width - 1)) :
        /\ rp[1] < Height(s, rp[2])
        /\ CellAt(s, rp[1], rp[2]).identifier = i}

(* the ADD, MOVE and REMOVE lines of lg that name the unit with identifier i *)
LinesOf(lg, i) ==
    {k \in 1..Len(lg) : lg[k][2] \in {"ADD", "MOVE", "REMOVE"} /\ lg[k][3] = i}

(* C13: the arriving unit is rejected iff value \div size < 1 and
   delivery.start > end, with end as it stands on arrival; a rejected unit
   never has a cell or a location in the Store and no ADD, MOVE or REMOVE
   line of the log names it. *)
C13_Admission ==
    [][/\ stream' # stream
            => LET c == stream'[Len(stream')]
               IN  (c.identifier \in hist'.rejected)
                   <=> (c.value \div c.size < 1 /\ c.delivery.start > strategy.end)
       /\ \A i \in hist'.rejected :
            /\ location(store', stream'[i]) = Absent
            /\ CellsOf(store', i) = {}
            /\ LinesOf(log', i) = {}]_vars

(* a unit was rejected, a later unit with value \div size < 1 was admitted
   and is in the Store *)
C13_Witness ==
    \E i, j \in 1..Len(stream) :
        /\ i < j
        /\ i \in hist.rejected
        /\ j \notin hist.rejected
        /\ stream[j].value \div stream[j].size < 1
        /\ location(store, stream[j]) # Absent

(* the greatest height of the columns of the waiting area [s3, s4) *)
WaitingHeight(s) ==
    CHOOSE h \in 0..(NumArrivals + 1) :
        /\ \E p \in s3..(s4 - 1) : Height(s, p) = h
        /\ \A p \in s3..(s4 - 1) : Height(s, p) <= h

(* C14: at the arrival of every unit, accepted or not, if
   end <= min(next_time, time + maxheight(waiting area) * (s4 - s3)) then
   end becomes time + T and emptied and moved become false; otherwise end,
   emptied and moved are unchanged. *)
C14_StageTransition ==
    [][stream' # stream
        => LET c == stream'[Len(stream')]
               horizon == strategy.time + WaitingHeight(store) * (s4 - s3)
           IN  IF strategy.end <= Min(c.arrival.end, horizon)
               THEN /\ strategy'.end = strategy.time + T
                    /\ ~strategy'.emptied
                    /\ ~strategy'.moved
               ELSE /\ strategy'.end = strategy.end
                    /\ strategy'.emptied = strategy.emptied
                    /\ strategy'.moved = strategy.moved]_vars

(* some column of [d0, df) admits u with its whole footprint inside the range *)
Admits(s, u, d0, df) ==
    \E i \in d0..(df - u.size) : can_add(s, u, i)

(* C15: a step that places the arriving unit u puts its footprint inside
   [s1, s2) when u.delivery.start < end and inside [s3, s4) otherwise; it
   puts it elsewhere in [s1, s4) only when no column of that range admits u. *)
C15_PlacementArea ==
    [][\A p \in 0..(SchedWidth - 1) :
        (/\ stream # <<>>
         /\ location(store, cur) = Absent
         /\ location(store', cur) # Absent
         /\ location(store', cur)[2] = p)
        => LET u == cur
               d0 == IF u.delivery.start < strategy.end THEN s1 ELSE s3
               df == IF u.delivery.start < strategy.end THEN s2 ELSE s4
           IN  \/ d0 <= p /\ p + u.size <= df
               \/ /\ ~Admits(store, u, d0, df)
                  /\ s1 <= p /\ p + u.size <= s4]_vars

(* the columns i of [d0, df) with i + u.size <= df and can_add(u, i) *)
AdmittingColumns(s, u, d0, df) ==
    {i \in 0..(s.width - 1) : d0 <= i /\ i + u.size <= df /\ can_add(s, u, i)}

(* C16: movable(u, d0, df) is None iff no column of [d0, df) admits u with
   its footprint inside the range; otherwise it is such a column and no
   such column is lower. *)
C16_GreedyColumn ==
    \A i \in 1..Len(stream), d0 \in 0..width(store), df \in 0..width(store) :
        d0 <= df
        => LET u == stream[i]
               p == movable(store, u, d0, df)
               ok == AdmittingColumns(store, u, d0, df)
           IN  /\ (p = NoPos) <=> (ok = {})
               /\ p # NoPos
                    => /\ p \in ok
                       /\ \A j \in ok : Height(store, p) <= Height(store, j)

(* a unit of size 2 has admitting columns of different heights in a range,
   the column chosen is not the rightmost of them, and a range wide enough
   for the unit admits it nowhere *)
C16_Witness ==
    \E i \in 1..Len(stream), d0 \in 0..width(store), df \in 0..width(store) :
        LET u == stream[i]
            ok == AdmittingColumns(store, u, d0, df)
            p == movable(store, u, d0, df)
        IN  /\ u.size = 2
            /\ p \in ok
            /\ \E k \in ok : k > p /\ Height(store, k) > Height(store, p)
            /\ \E e0 \in 0..width(store) :
                    /\ e0 + u.size <= width(store)
                    /\ movable(store, u, e0, e0 + u.size) = NoPos

(* C17: since the last stage transition the sweep of empty has run at most
   once and move_all has run at most once. *)
C17_OneShot ==
    /\ hist.empty_runs <= 1
    /\ hist.move_all_runs <= 1

(* the step is the arrival of a unit and sets end = time + T *)
BeginsStage == stream' # stream /\ strategy'.end = strategy.time + T

(* C18: emptied and moved go from true to false only in a step that begins
   a stage; a step that begins a stage leaves both false; end changes only
   in such a step. *)
C18_StageFlags ==
    [][/\ (strategy.emptied /\ ~strategy'.emptied) => BeginsStage
       /\ (strategy.moved /\ ~strategy'.moved) => BeginsStage
       /\ BeginsStage => ~strategy'.emptied /\ ~strategy'.moved
       /\ strategy'.end # strategy.end => BeginsStage]_vars

(* a stage in which both flags have been set, at an arrival that begins
   the next one *)
C18_Witness ==
    /\ strategy.emptied /\ strategy.moved
    /\ strategy.end > 0
    /\ ctl.pc = "wait"
    /\ Len(stream) < NumArrivals
    /\ \E c \in NextUnits : new_stage(c)

(* C19: the clock never decreases; the log only grows at its end and its
   timestamps are non-decreasing in file order; lines are written only
   inside the event of the last unit that arrived, stamped with the clock
   of the step that writes them, so the lines of one event precede the
   lines of the next. *)
C19_LogOrder ==
    [][/\ strategy'.time >= strategy.time
       /\ Len(log') >= Len(log)
       /\ SubSeq(log', 1, Len(log)) = log
       /\ \A k \in 2..Len(log') : log'[k - 1][1] <= log'[k][1]
       /\ \A k \in Written :
            /\ stream' = stream
            /\ ctl.pc # "wait"
            /\ log'[k][1] = strategy.time
            /\ log'[k][2] \in {"ADD", "MOVE", "REMOVE"}
                    => log'[k][3] \in 1..Len(stream)]_vars

(* the log holds the ADD lines of two events with growing stamps, a CASH
   line with the stamp of the line before it, and a MOVE line *)
C19_Witness ==
    /\ Len(stream) >= 2
    /\ \E j, k \in 2..Len(log) :
        /\ j < k
        /\ log[j][2] = "ADD" /\ log[j][3] = 1
        /\ log[k][2] = "ADD" /\ log[k][3] = 2
        /\ log[j][1] < log[k][1]
    /\ \E k \in 2..Len(log) : log[k][2] = "CASH" /\ log[k - 1][1] = log[k][1]
    /\ \E k \in 2..Len(log) : log[k][2] = "MOVE"

(* check_and_show: the Store and the verdict after the first k lines of lg,
   with the Containers looked up by identifier in the input *)
RECURSIVE Replay(_, _)
Replay(lg, k) ==
    IF k = 1
    THEN [store |-> NewStore(lg[1][4]),
          ok |-> lg[1][1] = 0 /\ lg[1][2] = "START"]
    ELSE LET r == Replay(lg, k - 1)
             l == lg[k]
             time == l[1]
             what == l[2]
             ordered == time >= lg[k - 1][1]
         IN  IF what = "CASH"
             THEN [store |-> r.store,
                   ok |-> r.ok /\ ordered /\ l[3] = cash(r.store)]
             ELSE IF what = "ADD"
             THEN [store |-> add(r.store, stream[l[3]], l[4]),
                   ok |-> r.ok /\ ordered /\ l[4] >= 0]
             ELSE IF what = "REMOVE"
             THEN LET container == stream[l[3]]
                      st == remove(r.store, container)
                  IN  [store |-> IF container.delivery.start <= time
                                    /\ time < container.delivery.end
                                 THEN add_cash(st, container.value)
                                 ELSE st,
                       ok |-> r.ok /\ ordered]
             ELSE IF what = "MOVE"
             THEN [store |-> move(r.store, stream[l[3]], l[4]),
                   ok |-> r.ok /\ ordered /\ l[4] >= 0 /\ l[4] < width(r.store)]
             ELSE [store |-> r.store, ok |-> FALSE]

(* C20: replaying the log written so far on a fresh Store of the logged
   width passes every assertion and gives the cash and the columns of the
   Store of the Strategy. *)
C20_RoundTrip ==
    LET r == Replay(log, Len(log))
    IN  /\ r.ok
        /\ cash(r.store) = cash(store)
        /\ r.store.containers = store.containers

(* the log holds a MOVE, a paid and an unpaid REMOVE with their CASH lines,
   and a unit is left in the Store *)
C20_Witness ==
    /\ \E k \in 2..Len(log) : log[k][2] = "MOVE"
    /\ \E k \in 2..Len(log) : IsDelivery(log[k])
    /\ \E k \in 2..Len(log) : log[k][2] = "REMOVE" /\ ~IsDelivery(log[k])
    /\ \E p \in 0..(SchedWidth - 1) : Height(store, p) > 0

----------------------------------------------------------------------------
(* check_and_show (store.py): a log file read line by line against the     *)
(* Containers of the input file.  store is the Store the validator builds, *)
(* strategy.time is its variable `last`, log holds the lines read so far;  *)
(* an assertion that fails or an exception that is raised ends the run at  *)
(* pc = "rejected".                                                        *)

MaxLines == 3       \* lines of the log after the START line

(* the Containers file: unit i has size 1 (i odd) or 2 (i even) *)
ReplayInput ==
    [i \in 1..NumUnits |->
        Container(i, 2 - (i % 2), i, TimeRange(i - 1, i), TimeRange(i, i + 2))]

ReplayCtl == [NoCtl EXCEPT !.pc = "replay"]

InitReplay ==
    /\ store = NewStore(YardWidth)
    /\ stream = ReplayInput
    /\ last = NoCall
    /\ int_is_value \in BOOLEAN
    /\ hist = NoHist
    /\ strategy = NoStrategy
    /\ ctl = ReplayCtl
    /\ log = <<Line(0, "START", 0, YardWidth)>>

(* containers_map[identifier] raises KeyError *)
containers_map_raises(identifier) == identifier \notin 1..Len(stream)

(* check_and_show lines 621-648, one line l = <<time, what, a, b>> read with
   the Store st: the Store after the line and whether the run goes on *)
check_line(st, prev, l) ==
    LET time == l[1]
        what == l[2]
    IN  IF ~(time >= prev)
        THEN [store |-> st, ok |-> FALSE]
        ELSE IF what = "CASH"
        THEN [store |-> st, ok |-> l[3] = cash(st)]
        ELSE IF what = "ADD"
        THEN IF containers_map_raises(l[3]) \/ l[4] < 0
             THEN [store |-> st, ok |-> FALSE]
             ELSE [store |-> add(st, stream[l[3]], l[4]), ok |-> TRUE]
        ELSE IF what = "REMOVE"
        THEN IF containers_map_raises(l[3])
             THEN [store |-> st, ok |-> FALSE]
             ELSE LET container == stream[l[3]]
                      removed == remove(st, container)
                  IN  [store |-> IF container.delivery.start <= time
                                    /\ time < container.delivery.end
                                 THEN add_cash(removed, container.value)
                                 ELSE removed,
                       ok |-> TRUE]
        ELSE IF what = "MOVE"
        THEN IF containers_map_raises(l[3]) \/ l[4] < 0 \/ l[4] >= width(st)
             THEN [store |-> st, ok |-> FALSE]
             ELSE [store |-> move(st, stream[l[3]], l[4]), ok |-> TRUE]
        ELSE [store |-> st, ok |-> FALSE]

(* one pass of the loop of check_and_show over the line l *)
ReadLine(l) ==
    /\ ctl.pc = "replay"
    /\ Len(log) <= MaxLines
    /\ LET r == check_line(store, strategy.time, l)
       IN  /\ store' = r.store
           /\ strategy' = [strategy EXCEPT !.time = IF l[1] >= @ THEN l[1] ELSE @]
           /\ ctl' = IF r.ok THEN ctl ELSE Goto(ctl, "rejected")
    /\ log' = Append(log, l)
    /\ UNCHANGED <<stream, last, int_is_value, hist>>

(* the stamps a line may carry: before, at or after the last stamp read *)
Stamps == {t \in (strategy.time - 1)..(strategy.time + 1) : t >= 0}

ReadCash == \E t \in Stamps, amount \in 0..NumUnits : ReadLine(Line(t, "CASH", amount, NoPos))

ReadAdd == \E t \in Stamps, i \in 1..(NumUnits + 1), p \in -1..YardWidth : ReadLine(Line(t, "ADD", i, p))

ReadRemove == \E t \in Stamps, i \in 1..(NumUnits + 1) : ReadLine(Line(t, "REMOVE", i, NoPos))

ReadMove == \E t \in Stamps, i \in 1..(NumUnits + 1), p \in -1..YardWidth : ReadLine(Line(t, "MOVE", i, p))

ReadOther == \E t \in Stamps : ReadLine(Line(t, "STOP", 0, NoPos))

NextReplay == ReadCash \/ ReadAdd \/ ReadRemove \/ ReadMove \/ ReadOther

SpecReplay == InitReplay /\ [][NextReplay]_vars

(* u is in the Store s with nothing above any of its cells *)
Topmost(s, u) ==
    \E p \in 0..(s.width - 1) :
        Height(s, p) > 0 /\ OnTopAt(s, u, Height(s, p) - 1, p)

(* the columns [p, p + u.size) are inside the Store s and equally high *)
FlatBase(s, u, p) ==
    /\ p >= 0 /\ p + u.size <= s.width
    /\ \A a, b \in Footprint(u, p) : Height(s, a) = Height(s, b)

(* the line l asks for an operation the Store s cannot perform: a unit that
   is not in the input; an ADD out of bounds or on a base that is not flat;
   a REMOVE or MOVE of a unit that is absent or not topmost; a MOVE whose
   destination is out of bounds or not flat once the unit is lifted *)
Inadmissible(s, l) ==
    /\ l[2] \in {"ADD", "MOVE", "REMOVE"}
    /\ \/ l[3] \notin 1..Len(stream)
       \/ LET u == stream[l[3]]
          IN  \/ l[2] = "ADD" /\ ~FlatBase(s, u, l[4])
              \/ l[2] = "REMOVE" /\ ~Topmost(s, u)
              \/ l[2] = "MOVE" /\ ~Topmost(s, u)
              \/ l[2] = "MOVE" /\ Topmost(s, u) /\ ~FlatBase(remove(s, u), u, l[4])

(* C21: the validator rejects the log at the first ADD, MOVE or REMOVE line
   that is inadmissible in the Store it has reconstructed so far. *)
C21_RejectsInadmissible ==
    [][\A k \in Written :
        (ctl.pc = "replay" /\ Inadmissible(store, log'[k]))
        => ctl'.pc = "rejected"]_vars

(* the REMOVE lines of lg that name the unit with identifier i *)
RemovesOf(lg, i) == {k \in 1..Len(lg) : lg[k][2] = "REMOVE" /\ lg[k][3] = i}

(* C22: once a REMOVE line names a unit, the unit has no location and no
   cell in the Store in any later state, no later step writes a MOVE or
   REMOVE line that names it, and no unit has more than one REMOVE line;
   this includes the step that handles a move candidate which a sweep has
   disposed of since it was selected. *)
C22_IdempotentDisposal ==
    [][/\ \A i \in 1..Len(stream) :
            RemovesOf(log, i) # {}
            => /\ location(store', stream[i]) = Absent
               /\ CellsOf(store', i) = {}
               /\ \A k \in Written :
                    log'[k][2] \in {"MOVE", "REMOVE"} => log'[k][3] # i
       /\ \A i \in 1..Len(stream') : Cardinality(RemovesOf(log', i)) <= 1]_vars

(* move_container has been called, with time left, for a candidate that a
   sweep removed after it was selected *)
C22_Witness ==
    /\ ctl.pc = "mc_check"
    /\ InTime
    /\ ctl.mc[1] # None
    /\ RemovesOf(log, ctl.mc[1].identifier) # {}

(* the step is the store.move call of move_container made by the
   rebalancing loops of exec (lines 341, 354, 370, 380) *)
RebalancingMove ==
    /\ ctl.pc = "mc_move"
    /\ Head(ctl.stack) \in {"in1_a", "in2_a"}
    /\ Written # {}

(* u lies in the Store s with its footprint inside the columns [d0, df) *)
LiesIn(s, u, d0, df) ==
    /\ location(s, u) # Absent
    /\ d0 <= location(s, u)[2]
    /\ location(s, u)[2] + u.size <= df

(* C23: when the rebalancing loops move a unit u with delivery.start > end,
   u ends in the waiting area [s3, s4) if some column of the waiting area
   admits it, and it is taken to a column of the working area only if no
   column of the waiting area admits it. *)
C23_Redirect ==
    [][(RebalancingMove /\ ctl.mc[1].delivery.start > strategy.end)
        => LET u == ctl.mc[1]
           IN  /\ Admits(store, u, s3, s4) => LiesIn(store', u, s3, s4)
               /\ (store' # store /\ location(store', u) # Absent
                        /\ location(store', u)[2] < s3)
                    => ~Admits(store, u, s3, s4)]_vars

(* the step is the store.move call of move_container made by the first
   loop of move_all (line 428) *)
RedistributionMove ==
    /\ ctl.pc = "mc_move"
    /\ Head(ctl.stack) = "ma_l1_a"
    /\ Written # {}

(* C24: a unit that the redistribution of move_all takes from the waiting
   area [s3, s4) into area A [s1, s2) has delivery.start <= end. *)
C24_Redistribution ==
    [][\A i \in 1..Len(stream) :
        LET u == stream[i]
        IN  (/\ RedistributionMove
             /\ ctl.mc[1] = u
             /\ location(store, u) # Absent
             /\ location(store, u)[2] + u.size > s3
             /\ LiesIn(store', u, s1, s2))
            => u.delivery.start <= strategy.end]_vars

(* exec has returned for the last Container of the stream *)
EventOver == ctl.pc = "wait" /\ stream # <<>>

(* C25: when the processing of a unit whose event began with
   time <= next_time is over, the clock equals next_time. *)
C25_ClockAtEnd ==
    (EventOver /\ hist.began <= strategy.next_time)
    => strategy.time = strategy.next_time

(* the ADD, MOVE and REMOVE lines of lg *)
ActionLines(lg) == {k \in 1..Len(lg) : lg[k][2] \in {"ADD", "MOVE", "REMOVE"}}

(* C26: a step that places, moves or disposes of a unit writes exactly one
   ADD, MOVE or REMOVE line, stamped with the clock, and advances the clock
   by exactly one; the Store changes in no other step; so no two ADD, MOVE
   or REMOVE lines of the log carry the same stamp. *)
C26_OneTick ==
    [][/\ (store' # store \/ Written # {})
            => /\ Cardinality(ActionLines(log') \ ActionLines(log)) = 1
               /\ \A k \in Written : log'[k][1] = strategy.time
               /\ strategy'.time = strategy.time + 1
       /\ \A j, k \in ActionLines(log') : j # k => log'[j][1] # log'[k][1]]_vars

(* an event in which a unit was placed, one was moved and one was disposed
   of at consecutive clock values, followed by an idle tick *)
C26_Witness ==
    /\ ctl.pc = "idle"
    /\ Len(log) >= 2
    /\ log[Len(log)][1] < strategy.time - 1
    /\ \E i, j, k \in ActionLines(log) :
        /\ log[i][2] = "ADD" /\ log[j][2] = "MOVE" /\ log[k][2] = "REMOVE"
        /\ log[j][1] = log[i][1] + 1
        /\ log[k][1] = log[j][1] + 1

----------------------------------------------------------------------------
(* The Store called with positions inside and outside 0..width-1: a call   *)
(* either raises (pc = "raised") or returns (pc = "api").                  *)

(* Store(width) raises ValueError *)
Store_raises(w) == w <= 0

(* c.expired(time) and c.deliverable(time) raise ValueError *)
time_raises(time) == time < 0

(* can_add(c, p) raises ValueError; add(c, p) raises where its can_add does *)
can_add_raises(s, c, p) == p < 0

(* move(c, p) raises ValueError *)
move_raises(s, c, p) == p < 0 \/ p >= width(s)

(* top_container(p) raises ValueError *)
top_container_raises(s, p) == p < 0 \/ p >= width(s)

EdgePositions == -1..YardWidth

(* the call op(c, p) has raised or has returned with the Store st *)
Outcome(op, c, p, raises, st) ==
    /\ store' = IF raises THEN store ELSE st
    /\ ctl' = [ctl EXCEPT !.pc = IF raises THEN "raised" ELSE "api"]
    /\ last' = [op |-> op, c |-> c.identifier, p |-> p,
                done |-> ~raises /\ st # store]
    /\ UNCHANGED <<stream, int_is_value, hist, strategy, log>>

(* the columns a call of add or move may stack on *)
BelowCap(p) == p \in Positions => get_column_height(store, p) < MaxHeight

EdgeAdd(c, p) ==
    /\ location(store, c) = Absent
    /\ BelowCap(p)
    /\ LET raises == can_add_raises(store, c, p)
       IN  Outcome("add", c, p, raises, IF raises THEN store ELSE add(store, c, p))

EdgeCanAdd(c, p) ==
    Outcome("can_add", c, p, can_add_raises(store, c, p), store)

EdgeMove(c, p) ==
    /\ BelowCap(p)
    /\ LET raises == move_raises(store, c, p)
       IN  Outcome("move", c, p, raises, IF raises THEN store ELSE move(store, c, p))

EdgeTop(p) ==
    Outcome("top_container", None, p, top_container_raises(store, p), store)

EdgeHeight(p) ==
    Outcome("get_column_height", None, p, get_column_height_raises(store, p), store)

EdgeRemove(c) ==
    Outcome("remove", c, 0, FALSE, remove(store, c))

NextEdge ==
    \/ \E i \in 1..NumUnits, p \in EdgePositions : EdgeAdd(stream[i], p)
    \/ \E i \in 1..NumUnits, p \in EdgePositions : EdgeCanAdd(stream[i], p)
    \/ \E i \in 1..NumUnits, p \in EdgePositions : EdgeMove(stream[i], p)
    \/ \E p \in EdgePositions : EdgeTop(p)
    \/ \E p \in EdgePositions : EdgeHeight(p)
    \/ \E i \in 1..NumUnits : EdgeRemove(stream[i])

SpecEdge == Init /\ [][NextEdge]_vars

(* C27: Store(width) with width <= 0 raises, expired and deliverable raise
   for a negative time, and add, can_add, move, top_container and
   get_column_height called with p < 0 or p >= width raise and leave the
   Store unchanged. *)
C27_ValidationErrors ==
    [][/\ Store_raises(0) /\ Store_raises(-1)
       /\ time_raises(-1)
       /\ (/\ last'.op \in {"add", "can_add", "move", "top_container",
                            "get_column_height"}
           /\ (last'.p < 0 \/ last'.p >= width(store)))
            => ctl'.pc = "raised" /\ store' = store]_vars

(* some removable top of [s1,s2) is movable into [s2,s3), or one of [s2,s3) into [s1,s2) *)
WorkExists(s) ==
    \/ can_move(s, s1, s2, s2, s3) # NoneT
    \/ can_move(s, s2, s3, s1, s2) # NoneT

IdleTick == ctl.pc = "tick" /\ strategy'.time = strategy.time + 1

(* C28: within an event no idle tick is taken at a clock value below
   next_time at which a removable top of area A is movable into area B or a
   removable top of area B is movable into area A, the ticks that follow a
   sweep of the idle loop included. *)
C28_NoIdleWithWork ==
    [][(IdleTick /\ InTime) => ~WorkExists(store)]_vars

(* C29: a unit that is in the Store stays in it until a REMOVE line is
   written for it: no scheduler step takes a unit out of the Store without
   a disposal. *)
C29_Conservation ==
    [][\A i \in 1..Len(stream) :
        (location(store, stream[i]) # Absent /\ location(store', stream[i]) = Absent)
        => RemovesOf(log', i) # {}]_vars

AddsOf(lg, i) == {k \in 1..Len(lg) : lg[k][2] = "ADD" /\ lg[k][3] = i}

(* the first add_container and the fallback over [s1, s4) have returned *)
PlacementOver == ctl.pc = "hk_empty" /\ stream # <<>>

(* C30: when the placement step of an accepted unit whose event began with
   time < next_time is over, the unit is in the Store; and a unit with an ADD
   line in the log is in the Store when its placement step is over. *)
C30_AdmittedPlaced ==
    PlacementOver =>
        /\ (cur.identifier \notin hist.rejected /\ hist.began < strategy.next_time)
                => location(store, cur) # Absent
        /\ AddsOf(log, cur.identifier) # {} => location(store, cur) # Absent

(* the columns p whose cell at row r is the Container that owns the simple cell at (r, j) *)
OwnersOf(s, r, j) ==
    LET cell == CellAt(s, r, j)
    IN  {p \in 0..(j - 1) :
            /\ Height(s, p) > r
            /\ IsMain(CellAt(s, r, p), cell)
            /\ j \in Footprint(CellAt(s, r, p), p)}

(* C31: in every state reached by add, remove and move on Containers with
   distinct identifiers, a Container of size s at row r, column c has its
   s - 1 simple cells at row r in columns c+1..c+s-1, and every simple cell
   lies in the footprint of exactly one Container of its identifier at its
   row. *)
C31_FootprintIntegrity ==
    \A j \in Positions : \A r \in 0..(Height(store, j) - 1) :
        LET cell == CellAt(store, r, j)
        IN  IF cell.value # -1
            THEN LiesAt(store, cell, r, j)
            ELSE Cardinality(OwnersOf(store, r, j)) = 1

(* a move has put a Container of size >= 2 on top of another one *)
C31_Witness ==
    /\ last.op = "move" /\ last.done
    /\ \E i \in 1..NumUnits :
        /\ stream[i].size >= 2
        /\ location(store, stream[i]) # Absent
        /\ location(store, stream[i])[1] >= 1
        /\ LiesAt(store, stream[i], location(store, stream[i])[1],
                  location(store, stream[i])[2])

(* a step credits cash only at a time inside the delivery window of the unit it removes *)
CreditInWindow ==
    cash(store') # cash(store)
        => \E k \in Written :
            /\ log'[k][2] = "REMOVE"
            /\ log'[k][1] = strategy.time
            /\ deliverable(stream[log'[k][3]], strategy.time)

(* a REMOVE line written by a step that credits nothing names an expired unit *)
UnpaidAfterWindow ==
    \A k \in Written :
        (log'[k][2] = "REMOVE" /\ cash(store') = cash(store))
            => log'[k][1] >= stream[log'[k][3]].delivery.end

(* C32: every cash credit for a unit u happens at a time t with
   u.delivery.start <= t < u.delivery.end, every REMOVE without a credit
   happens at t >= u.delivery.end, and no unit leaves the Store before its
   delivery window opens. *)
C32_DeliveryWindow ==
    [][/\ CreditInWindow
       /\ UnpaidAfterWindow
       /\ \A i \in 1..Len(stream) :
            (location(store, stream[i]) # Absent /\ location(store', stream[i]) = Absent)
                => strategy.time >= stream[i].delivery.start]_vars

(* the steps of exec after the arrival: the interpreter runs exec to its end *)
Internal ==
    \/ AcCheck \/ AcAdd \/ PlaceFb
    \/ HkEmpty \/ Em2 \/ HkMove
    \/ MaLoop1 \/ MaL1a \/ MaL1b \/ MaL1c
    \/ MaLoop2 \/ MaL2a \/ MaL2b \/ MaL2c \/ MaE1 \/ MaE2
    \/ Sweep0 \/ Cands \/ Outer \/ Mid
    \/ In1 \/ In1a \/ Turn \/ In2 \/ In2a \/ Back
    \/ Idle \/ Tick
    \/ Sweep \/ McCheck \/ McMove


(* exec has returned, or has been left by an exception *)
Finished == ctl.pc \in {"wait", "raised"}

(* Weak fairness of Internal. Every pc inside exec has a step of Internal  *)
(* and every such step changes ctl, so Internal is enabled exactly when    *)
(* exec has not finished, and WF_vars(Internal) reads as follows.          *)
SpecSchedFair == SpecSched /\ ([]<>Finished \/ []<><<Internal>>_vars)

(* C33: the processing of every incoming unit ends: from every state inside
   exec, the loops of move_all, of the rebalancing and of the idle phase
   included, exec returns after finitely many steps. *)
C33_Terminates == (~Finished) ~> Finished

(* the last event has run a move of move_all or of the rebalancing and idle
   ticks, and exec has returned with the clock at next_time *)
C33_Witness ==
    /\ ctl.pc = "wait"
    /\ Len(stream) = NumArrivals
    /\ strategy.time = strategy.next_time
    /\ \E k \in 1..Len(log) :
        /\ log[k][2] = "MOVE"
        /\ log[k][1] >= stream[NumArrivals].arrival.start
        /\ log[k][1] + 1 < strategy.next_time

(* C34: for every Container u that is not in the Store and every p with
   can_add(u, p), can_remove(u) is true right after add(u, p), and add(u, p)
   followed by remove(u) gives back the columns, the location dictionary
   and the cash of the Store before the add. *)
C34_AddRemove ==
    \A i \in 1..NumUnits, p \in Positions :
        LET u == stream[i]
            added == add(store, u, p)
        IN  (location(store, u) = Absent /\ can_add(store, u, p))
            => /\ can_remove(added, u)
               /\ remove(added, u) = store

----------------------------------------------------------------------------
(* Strategy of simple.py: exec, one step per action.  strategy.next_time   *)
(* holds _arrival_end.                                                     *)

SimpleWidth == 20

SimpleArrivals == 2

(* Store.height *)
height(s) ==
    LET Hs == {Len(s.containers[i]) : i \in 0..(s.width - 1)}
    IN  CHOOSE h \in Hs : \A g \in Hs : g <= h

calc_position(s) ==
    IF s = 1 THEN 0
    ELSE IF s = 2 THEN 2
    ELSE IF s = 3 THEN 6
    ELSE IF s = 4 THEN 12
    ELSE -1

(* simple.deliver_container: add_cash, remove, log.remove, log.cash, time_increment *)
simple_deliver_container(w, c) ==
    LET paid == add_cash(w.store, c.value)
        st == remove(paid, c)
    IN  [store |-> st,
         log |-> w.log \o <<Line(w.time, "REMOVE", c.identifier, NoPos),
                            Line(w.time, "CASH", cash(st), NoPos)>>,
         time |-> w.time + 1,
         last |-> [op |-> "remove", c |-> c.identifier, p |-> 0,
                   done |-> st # paid]]

(* simple.remove_container: remove, log.remove, log.cash, time_increment *)
simple_remove_container(w, c) ==
    LET st == remove(w.store, c)
    IN  [store |-> st,
         log |-> w.log \o <<Line(w.time, "REMOVE", c.identifier, NoPos),
                            Line(w.time, "CASH", cash(st), NoPos)>>,
         time |-> w.time + 1,
         last |-> [op |-> "remove", c |-> c.identifier, p |-> 0,
                   done |-> st # w.store]]

(* the body of the loop of move_column for the top Container of p1 *)
move_column_step(w, top, p2) ==
    IF expired(top, w.time)
    THEN simple_remove_container(w, top)
    ELSE IF deliverable(top, w.time)
         THEN simple_deliver_container(w, top)
         ELSE LET st == move(w.store, top, p2)
              IN  [store |-> st,
                   log |-> Append(w.log, Line(w.time, "MOVE", top.identifier, p2)),
                   time |-> w.time + 1,
                   last |-> [op |-> "move", c |-> top.identifier, p |-> p2,
                             done |-> st # w.store]]

(* a kind is <<size, value, step, begin - now, end - begin>> *)
SimpleKinds ==
    {<<1, 2, 1, 2, 2>>, <<1, 2, 3, 1, 1>>, <<1, 2, 4, 5, 2>>,
     <<2, 3, 1, 1, 2>>, <<2, 3, 4, 2, 1>>, <<3, 1, 3, 1, 3>>,
     <<4, 2, 2, 4, 1>>, <<4, 2, 4, 2, 2>>}

SimpleUnits ==
    {Container(Len(stream) + 1, k[1], k[2],
               TimeRange(Now, Now + k[3]),
               TimeRange(Now + k[4], Now + k[4] + k[5])) : k \in SimpleKinds}

(* the k-th of TallBase Containers of size 1 that arrive one tick apart and are never due *)
Waiting(k) == Container(k, 1, 1, TimeRange(k - 1, k), TimeRange(2 * TallBase, 3 * TallBase))

(* a new Strategy, or the Strategy after exec(Waiting(1)), ..., exec(Waiting(TallBase)) *)
InitSimple ==
    /\ \/ /\ store = NewStore(SimpleWidth)
          /\ stream = <<>>
          /\ strategy = [NoStrategy EXCEPT !.time = 0, !.next_time = 0]
          /\ log = <<Line(0, "START", 0, SimpleWidth)>>
       \/ /\ store = [width |-> SimpleWidth, cash |-> 0,
                      containers |-> [i \in 0..(SimpleWidth - 1) |->
                            IF i = 0 THEN [k \in 1..TallBase |-> Waiting(k)] ELSE <<>>],
                      container_loc |-> [id \in 1..TallBase |-> <<id - 1, 0>>]]
          /\ stream = [k \in 1..TallBase |-> Waiting(k)]
          /\ strategy = [NoStrategy EXCEPT !.time = TallBase, !.next_time = TallBase]
          /\ log = <<Line(0, "START", 0, SimpleWidth)>>
                   \o [k \in 1..TallBase |-> Line(k - 1, "ADD", k, 0)]
    /\ last = NoCall
    /\ int_is_value \in BOOLEAN
    /\ hist = NoHist
    /\ ctl = WaitCtl

(* the Containers that arrived before the first exec of the run *)
Arrived0 == IF Len(stream) >= TallBase THEN TallBase ELSE 0

(* exec lines 144-150: _arrival_end, calc_position, add, log.add, time_increment *)
SxExec(c) ==
    /\ ctl.pc = "wait"
    /\ Len(stream) < Arrived0 + SimpleArrivals
    /\ stream' = Append(stream, c)
    /\ LET p == calc_position(c.size)
       IN  /\ store' = add(store, c, p)
           /\ log' = Append(log, Line(strategy.time, "ADD", c.identifier, p))
           /\ last' = [op |-> "add", c |-> c.identifier, p |-> p,
                       done |-> store' # store]
    /\ strategy' = [strategy EXCEPT !.time = @ + 1, !.next_time = c.arrival.end]
    /\ hist' = [hist EXCEPT !.began = strategy.time]
    /\ ctl' = Goto(ctl, "sx_loop")
    /\ UNCHANGED int_is_value

(* exec line 154 *)
SxLoop ==
    /\ ctl.pc = "sx_loop"
    /\ ctl' = IF InTime /\ height(store) # 0
              THEN [Goto(ctl, "sx_for") EXCEPT !.i = 1]
              ELSE Goto(ctl, "sx_idle")
    /\ UNCHANGED <<store, stream, last, int_is_value, hist, strategy, log>>

(* move_column(p1, p2) is called and returns to ret *)
CallColumn(ct, p1, p2, ret) == [Call(ct, "mvc", ret) EXCEPT !.ac = <<p1, p2>>]

(* exec lines 155-158 *)
SxFor ==
    /\ ctl.pc = "sx_for"
    /\ LET p == calc_position(ctl.i)
       IN  ctl' = IF ctl.i > 4
                  THEN [Goto(ctl, "sx_loop") EXCEPT !.i = 0]
                  ELSE IF InTime
                       THEN CallColumn(ctl, p, p + ctl.i, "sx_back")
                       ELSE [ctl EXCEPT !.i = @ + 1]
    /\ UNCHANGED <<store, stream, last, int_is_value, hist, strategy, log>>

(* exec lines 159-160 *)
SxBack ==
    /\ ctl.pc = "sx_back"
    /\ LET p == calc_position(ctl.i)
       IN  ctl' = IF InTime
                  THEN [CallColumn(ctl, p + ctl.i, p, "sx_for") EXCEPT !.i = @ + 1]
                  ELSE [Goto(ctl, "sx_for") EXCEPT !.i = @ + 1]
    /\ UNCHANGED <<store, stream, last, int_is_value, hist, strategy, log>>

(* move_column lines 221-234 *)
MoveColumn ==
    /\ ctl.pc = "mvc"
    /\ LET top == top_container(store, ctl.ac[1])
       IN  IF top # None /\ InTime
           THEN /\ Commit(move_column_step(World, top, ctl.ac[2]))
                /\ ctl' = ctl
           ELSE /\ ctl' = [Return(ctl) EXCEPT !.ac = NoCtl.ac]
                /\ UNCHANGED <<store, strategy, log, last>>
    /\ UNCHANGED <<stream, int_is_value, hist>>

(* exec lines 163-164 *)
SxIdle ==
    /\ ctl.pc = "sx_idle"
    /\ IF InTime
       THEN /\ strategy' = [strategy EXCEPT !.time = @ + 1]
            /\ ctl' = ctl
       ELSE /\ strategy' = strategy
            /\ ctl' = WaitCtl
    /\ UNCHANGED <<store, stream, last, int_is_value, hist, log>>

NextSimple ==
    \/ \E c \in SimpleUnits : SxExec(c)
    \/ SxLoop \/ SxFor \/ SxBack \/ MoveColumn \/ SxIdle

SpecSimple == InitSimple /\ [][NextSimple]_vars

(* every Container in the Store has its main cell on one of the two stacks of its size *)
OnItsStacks(s) ==
    \A i \in 1..Len(stream') :
        LET u == stream'[i]
            l == location(s, u)
        IN  l # Absent
            => /\ l[2] \in {calc_position(u.size), calc_position(u.size) + u.size}
               /\ LiesAt(s, u, l[1], l[2])

(* C35: with width 20 and sizes 1..4, every Container in the Store has its
   main cell at column calc_position(s) or calc_position(s) + s; every ADD,
   MOVE and REMOVE line the simple strategy writes is written by a step
   whose Store operation succeeded; and cash is credited only by a step
   that takes the credited Container out of the Store. *)
C35_SimplePolicy ==
    [][/\ OnItsStacks(store')
       /\ \A k \in Written :
            LET l == log'[k]
                u == stream'[l[3]]
            IN  /\ l[2] \in {"ADD", "MOVE"}
                    => /\ store' # store
                       /\ location(store', u) # Absent
                       /\ location(store', u)[2] = l[4]
                /\ l[2] = "REMOVE"
                    => /\ location(store, u) # Absent
                       /\ location(store', u) = Absent
       /\ cash(store') # cash(store)
            => \E i \in 1..Len(stream) :
                /\ location(store, stream[i]) # Absent
                /\ location(store', stream[i]) = Absent
                /\ cash(store') = cash(store) + stream[i].value]_vars

----------------------------------------------------------------------------
(* Strategy(width) for the widths from s3, where the waiting area [s3, s4) *)
(* is empty, to SchedWidth.                                                *)

Widths == s3..SchedWidth

InitWidths ==
    /\ \E w \in Widths :
        /\ store = NewStore(w)
        /\ log = <<Line(0, "START", 0, w)>>
    /\ stream = <<>>
    /\ last = NoCall
    /\ int_is_value \in BOOLEAN
    /\ hist = NoHist
    /\ strategy = [time |-> 0, next_time |-> 0, end |-> 0,
                   emptied |-> FALSE, moved |-> TRUE]
    /\ ctl = WaitCtl

SpecWidths == InitWidths /\ [][NextSched]_vars

(* C36: for every width >= s3, the width s3 of an empty waiting area
   included, exec processes every incoming Container without a ValueError
   from a query or an operation of the Store. *)
C36_NoValidationError == ctl.pc # "raised"

====
